---- MODULE Spec2Model ----
(***************************************************************************)
(* infra-cli: one orchestrator session (create-env, in its two versions,   *)
(* or create-backend) together with the ngrok supervisor of                *)
(* infra/utils/ngrok_util.py and the environment it talks to (the ngrok    *)
(* process, the local status API, the provisioning backend, the user).     *)
(* Spec is the session; InstallSpec is download_ngrok called repeatedly on *)
(* one host.                                                               *)
(***************************************************************************)
EXTENDS Integers, Sequences, FiniteSets, TLC

VARIABLES
    flow,             \* which run() this session executes
    pc,               \* position of the session in the code
    exitCode,         \* process exit code, -1 while the session runs
    exitKind,         \* "none" | "return" | "sysexit" | "traceback"
    exc,              \* the exception that ended start_ngrok / get_ngrok_endpoint / run
    printed,          \* diagnostics printed so far
    reprompts,        \* invalid answers given at the current prompt
    developer,        \* os.getenv("DEVELOPER"): "unread" | "unset" | "set"
    terraform_endpoint, \* os.getenv of the endpoint variable(s): "unread" | "unset" | "empty" | "set"
    available_services,
    available_branches,
    available_stable_environments,
    listFailed,       \* listing calls whose request failed
    local_services,   \* local_services / services_to_deploy
    selected_branch,
    environment,
    is_ephemeral,
    sysBin,           \* "absent" | "ok" | "broken": shutil.which + "version" probe
    system,           \* platform.system() of the host, "any" where the model leaves it open
    machine,          \* platform.machine() of the host, "any" where the model leaves it open
    localCopy,        \* a binary exists at get_local_ngrok_path()
    executable,       \* that binary is complete and may be executed
    archive,          \* ngrok.zip exists in NGROK_BIN_DIR
    downloads,        \* calls of download_ngrok
    installLog,       \* how each call of download_ngrok on this host ended, oldest first
    probed,           \* binaries the "version" command was run on
    ngrok_exec,       \* "none" | "system" | "local"
    stale,            \* an earlier tunnel instance: "none" | "running" | "killed"
    killState,        \* "not_tried" | "ran" | "raised"
    settled,          \* time.sleep(2) after the kill was executed
    authtoken,        \* "unset" | "set": NGROK_AUTHTOKEN
    authState,        \* "not_run" | "ok" | "failed"
    proc,             \* the launched process: "none" | "running" | "exited" | "terminated"
    procExitPc,       \* where the session was when the launched process exited on its own
    i,                \* loop variable of start_ngrok
    polls,            \* is_ngrok_running() calls made by the loop of start_ngrok
    ready,            \* start_ngrok returned the process
    statusResp,       \* what the status read of get_ngrok_endpoint got
    public_url,       \* tunnels[0]["public_url"]
    ngrok_endpoint,
    confirm,          \* the last answer at the confirmation prompt, "" before
    payload,          \* the request built by build_payload (<<>> before)
    posts             \* creation POSTs issued

vars == <<flow, pc, exitCode, exitKind, exc, printed, reprompts,
          developer, terraform_endpoint,
          available_services, available_branches, available_stable_environments,
          listFailed, local_services, selected_branch, environment, is_ephemeral,
          system, machine,
          sysBin, localCopy, executable, archive, downloads, installLog, probed, ngrok_exec,
          stale, killState, settled, authtoken, authState,
          proc, procExitPc, i, polls, ready,
          statusResp, public_url, ngrok_endpoint, confirm, payload, posts>>

configVars == <<developer, terraform_endpoint>>
sessionVars == <<available_services, available_branches, available_stable_environments,
                 listFailed, local_services, selected_branch, environment, is_ephemeral>>
hostVars == <<system, machine>>
installVars == <<sysBin, localCopy, executable, archive, downloads, installLog, probed, ngrok_exec>>
launchVars == <<stale, killState, settled, authtoken, authState>>
loopVars == <<i, polls, ready>>
readVars == <<statusResp, public_url, ngrok_endpoint>>
sendVars == <<payload, posts>>

(***************************************************************************)
(* Bounds of the model                                                     *)
(***************************************************************************)
\* comma-separated fields in one services answer or --services argument
MaxParts == 2
\* invalid answers counted at one prompt
MaxReprompts == 1
\* tunnel mappings in one status response
MaxTunnels == 2
\* successive calls of download_ngrok on one host
MaxRuns == 4

(***************************************************************************)
(* Program constants                                                       *)
(***************************************************************************)
\* start_ngrok: timeout = 30
timeout == 30

(***************************************************************************)
(* Strings that the code rewrites are sequences of characters              *)
(***************************************************************************)
HTTPS == <<"h", "t", "t", "p", "s", ":", "/", "/">>
HTTP == <<"h", "t", "t", "p", ":", "/", "/">>
TCP == <<"t", "c", "p", ":", "/", "/">>

StartsWith(s, p) == Len(s) >= Len(p) /\ SubSeq(s, 1, Len(p)) = p

Drop(s, n) == SubSeq(s, n + 1, Len(s))

\* str.replace(old, ""): every non-overlapping occurrence, left to right
RECURSIVE replace(_, _)
replace(s, old) ==
    IF Len(s) < Len(old) THEN s
    ELSE IF StartsWith(s, old) THEN replace(Drop(s, Len(old)), old)
    ELSE <<Head(s)>> \o replace(Tail(s), old)

\* get_ngrok_endpoint: url.replace("https://", "").replace("http://", "")
strip_protocol(url) == replace(replace(url, HTTPS), HTTP)

\* public_url values a status response may carry
PublicUrls ==
    { HTTPS \o <<"a", ".", "i", "o">>,
      HTTP \o <<"a", ".", "i", "o">>,
      TCP \o <<"a", ".", "i", "o">>,
      HTTPS \o <<"a", "/">> \o HTTP \o <<"b">>,
      <<"h", "t">> \o HTTPS \o <<"t", "p", ":", "/", "/", "a">> }

TunnelLists == UNION { [1..n -> PublicUrls] : n \in 0..MaxTunnels }

(***************************************************************************)
(* Exceptions                                                              *)
(***************************************************************************)
NoExc == [type |-> "none", msg |-> "", cause |-> "none"]
CrashError == [type |-> "RuntimeError", msg |-> "Ngrok exited prematurely", cause |-> "none"]
LaunchTimeoutError ==
    [type |-> "RuntimeError", msg |-> "Timeout while waiting for ngrok to start.", cause |-> "none"]
TimeoutExpired == [type |-> "TimeoutExpired", msg |-> "timed out after 1 seconds", cause |-> "none"]
KeyboardInterrupt == [type |-> "KeyboardInterrupt", msg |-> "", cause |-> "none"]
ConnectionError == [type |-> "ConnectionError", msg |-> "Connection refused", cause |-> "none"]
NoTunnelsError == [type |-> "ValueError", msg |-> "No active ngrok tunnels.", cause |-> "none"]
DownloadError(kind) == [type |-> kind, msg |-> "download failed", cause |-> "none"]
AttributeError == [type |-> "AttributeError", msg |-> "NoneType has no attribute rsplit", cause |-> "none"]

\* get_ngrok_endpoint: except Exception as e: raise RuntimeError(f"Error fetching ngrok endpoint: {e}")
EndpointError(e) == [type |-> "RuntimeError", msg |-> e.msg, cause |-> "Error fetching ngrok endpoint"]

(***************************************************************************)
(* Console input and command-line arguments                                *)
(***************************************************************************)
\* str.strip() on the strings the model feeds in
strip(s) ==
    CASE s = " web " -> "web"
      [] s = " main" -> "main"
      [] s = " prod" -> "prod"
      [] s = " " -> ""
      [] OTHER -> s

\* str.isdigit() and int() on the same strings
isdigit(s) == s \in {"1", "2", "9"}

int(s) == CASE s = "1" -> 1 [] s = "2" -> 2 [] s = "9" -> 9 [] OTHER -> 0

Range(q) == { q[k] : k \in 1..Len(q) }

IsNonEmpty(s) == s # ""

\* [p.strip() for p in raw.split(",") if p.strip()], raw given as its fields
split_parts(fields) == SelectSeq([k \in 1..Len(fields) |-> strip(fields[k])], IsNonEmpty)

\* the fields of one comma-separated line
Fields == {"", "api", " web ", "2", "9", "bad"}

RawLines == UNION { [1..n -> Fields] : n \in 1..MaxParts }

\* a command-line option: absent (None) or a string
NoArg == [given |-> FALSE, value |-> <<>>]

ServicesArgs == {NoArg} \cup { [given |-> TRUE, value |-> r] : r \in RawLines }

\* "".split(",") is [""]: the empty string is the line of one empty field
truthy_line(a) == a.given /\ a.value # <<"">>

NoStr == [given |-> FALSE, value |-> ""]

StrArgs(S) == {NoStr} \cup { [given |-> TRUE, value |-> v] : v \in S }

truthy_str(a) == a.given /\ a.value # ""

\* the for loop of choose_multiple_from_list over parts[k..]
RECURSIVE scan_parts(_, _, _, _, _)
scan_parts(options, parts, k, seen, selected) ==
    IF k > Len(parts) THEN [all_valid |-> TRUE, selected |-> selected]
    ELSE LET p == parts[k] IN
         IF p \in seen THEN [all_valid |-> FALSE, selected |-> selected]
         ELSE IF isdigit(p) THEN
                  IF 1 <= int(p) /\ int(p) <= Len(options) THEN
                      IF options[int(p)] \in Range(selected)
                      THEN [all_valid |-> FALSE, selected |-> selected]
                      ELSE scan_parts(options, parts, k + 1, seen \cup {p},
                                      Append(selected, options[int(p)]))
                  ELSE [all_valid |-> FALSE, selected |-> selected]
         ELSE IF p \in Range(options) THEN
                  IF p \in Range(selected)
                  THEN [all_valid |-> FALSE, selected |-> selected]
                  ELSE scan_parts(options, parts, k + 1, seen \cup {p}, Append(selected, p))
         ELSE [all_valid |-> FALSE, selected |-> selected]

\* one pass of the while loop of choose_multiple_from_list: accepted, and the selection
parse_selection(options, fields) ==
    LET r == scan_parts(options, split_parts(fields), 1, {}, <<>>)
    IN [accepted |-> r.all_valid /\ r.selected # <<>>, selected |-> r.selected]

\* one pass of the while loop of choose_from_list
parse_choice(options, answer) ==
    LET choice == strip(answer) IN
    IF isdigit(choice) THEN
        IF 1 <= int(choice) /\ int(choice) <= Len(options)
        THEN [accepted |-> TRUE, value |-> options[int(choice)]]
        ELSE [accepted |-> FALSE, value |-> ""]
    ELSE IF choice \in Range(options) THEN [accepted |-> TRUE, value |-> choice]
    ELSE [accepted |-> FALSE, value |-> ""]

\* [s for s in services if s not in available]
invalid_of(services, available) ==
    SelectSeq(services, LAMBDA s : s \notin Range(available))

(***************************************************************************)
(* What the provisioning backend may answer                                *)
(***************************************************************************)
ServerServices == {<<>>, <<"api", "web">>}
ServerBranches == {<<>>, <<"main">>}
ServerStable == {<<>>, <<"prod">>}

Flows == {"create_env_v1", "create_env_v2", "create_backend"}
EnvFlows == {"create_env_v1", "create_env_v2"}

(***************************************************************************)
(* Ending the session                                                      *)
(***************************************************************************)
\* sys.exit(code) after printing msgs
sys_exit(code, msgs) ==
    /\ pc' = "done"
    /\ exitCode' = code
    /\ exitKind' = "sysexit"
    /\ printed' = printed \cup msgs
    /\ UNCHANGED exc

\* an exception nobody catches: the interpreter prints the traceback and exits with 1
uncaught(e, msgs) ==
    /\ pc' = "done"
    /\ exitCode' = 1
    /\ exitKind' = "traceback"
    /\ exc' = e
    /\ printed' = printed \cup msgs \cup {"Traceback"}

\* run() returns
returns(msgs) ==
    /\ pc' = "done"
    /\ exitCode' = 0
    /\ exitKind' = "return"
    /\ printed' = printed \cup msgs
    /\ UNCHANGED exc

goto(p, msgs) ==
    /\ pc' = p
    /\ printed' = printed \cup msgs
    /\ UNCHANGED <<exitCode, exitKind, exc>>

\* an invalid answer at a prompt: the while True loop asks again (the text of the
\* repeated prompt is not kept among the diagnostics)
ask_again ==
    /\ reprompts < MaxReprompts
    /\ reprompts' = reprompts + 1
    /\ goto(pc, {})

\* an exception leaving get_ngrok_endpoint, in run() of create_env:
\* except RuntimeError as e: print(e); sys.exit(1)
raise_in_run(e, msgs) ==
    IF e.type = "RuntimeError"
    THEN /\ pc' = "done"
         /\ exitCode' = 1
         /\ exitKind' = "sysexit"
         /\ exc' = e
         /\ printed' = printed \cup msgs \cup {e.msg}
    ELSE uncaught(e, msgs)

(***************************************************************************)
(* Initial state: a session about to call run()                            *)
(***************************************************************************)
Init ==
    /\ flow \in Flows
    /\ pc = "start"
    /\ exitCode = -1
    /\ exitKind = "none"
    /\ exc = NoExc
    /\ printed = {}
    /\ reprompts = 0
    /\ developer = "unread"
    /\ terraform_endpoint = "unread"
    /\ available_services = <<>>
    /\ available_branches = <<>>
    /\ available_stable_environments = <<>>
    /\ listFailed = {}
    /\ local_services = <<>>
    /\ selected_branch = ""
    /\ environment = ""
    /\ is_ephemeral = FALSE
    /\ sysBin \in IF flow \in EnvFlows THEN {"absent", "ok", "broken"} ELSE {"absent"}
    /\ system = "any"
    /\ machine = "any"
    /\ localCopy \in IF flow \in EnvFlows THEN BOOLEAN ELSE {FALSE}
    /\ executable = localCopy
    /\ archive = FALSE
    /\ downloads = 0
    /\ installLog = <<>>
    /\ probed = {}
    /\ ngrok_exec = "none"
    /\ stale \in IF flow \in EnvFlows THEN {"none", "running"} ELSE {"none"}
    /\ killState = "not_tried"
    /\ settled = FALSE
    /\ authtoken \in IF flow \in EnvFlows THEN {"unset", "set"} ELSE {"unset"}
    /\ authState = "not_run"
    /\ proc = "none"
    /\ procExitPc = "none"
    /\ i = 0
    /\ polls = 0
    /\ ready = FALSE
    /\ statusResp = "none"
    /\ public_url = <<>>
    /\ ngrok_endpoint = <<>>
    /\ confirm = ""
    /\ payload = <<>>
    /\ posts = 0

(***************************************************************************)
(* run(): configuration and the listing calls                              *)
(***************************************************************************)
\* run(), step 1 of the three scripts
run_load_env ==
    /\ pc = "start"
    /\ IF flow \in EnvFlows
       THEN \E endpoint \in {"unset", "empty", "set"}, dev \in {"unset", "set"} :
              /\ terraform_endpoint' = endpoint
              /\ developer' = dev
              /\ IF endpoint = "unset"
                 THEN \* terraform_endpoint.rsplit("/", 1) on None, before the check
                      uncaught(AttributeError, {})
                 ELSE IF endpoint = "empty"
                 THEN sys_exit(1, {"TERRAFORM_ENDPOINT is not defined"})
                 ELSE IF dev = "unset"
                 THEN sys_exit(1, {"DEVELOPER is not defined"})
                 ELSE goto("fetch_services", {})
       ELSE \* create_backend.py reads its three endpoint variables and no DEVELOPER
            \E endpoints \in {"unset", "empty", "set"} :
              /\ terraform_endpoint' = endpoints
              /\ developer' = developer
              /\ IF endpoints # "set"
                 THEN sys_exit(1, {"Missing required environment variables"})
                 ELSE goto("fetch_services", {})
    /\ UNCHANGED <<flow, hostVars, confirm, reprompts, sessionVars, installVars, launchVars,
                   proc, procExitPc, loopVars, readVars, sendVars>>

\* the result of a listing call: the list, or [] after printing the error
listing(ok, answer) == IF ok THEN answer ELSE <<>>

get_available_services ==
    /\ pc = "fetch_services"
    /\ \E ok \in BOOLEAN, answer \in ServerServices :
         /\ available_services' = listing(ok, answer)
         /\ listFailed' = IF ok THEN listFailed ELSE listFailed \cup {"services"}
         /\ goto(CASE flow = "create_env_v1" -> "choose_services"
                   [] flow = "create_env_v2" -> "fetch_branches"
                   [] OTHER -> "fetch_stable",
                 IF ok THEN {} ELSE {"Error fetching services"})
    /\ UNCHANGED <<flow, hostVars, confirm, configVars, reprompts, available_branches, available_stable_environments,
                   local_services, selected_branch, environment, is_ephemeral,
                   installVars, launchVars, proc, procExitPc, loopVars, readVars, sendVars>>

get_repo_branches ==
    /\ pc = "fetch_branches"
    /\ \E ok \in BOOLEAN, answer \in ServerBranches :
         /\ available_branches' = listing(ok, answer)
         /\ listFailed' = IF ok THEN listFailed ELSE listFailed \cup {"branches"}
         /\ goto(IF flow = "create_env_v1" THEN "choose_branch" ELSE "args",
                 IF ok THEN {} ELSE {"Error fetching branches"})
    /\ UNCHANGED <<flow, hostVars, confirm, configVars, reprompts, available_services, available_stable_environments,
                   local_services, selected_branch, environment, is_ephemeral,
                   installVars, launchVars, proc, procExitPc, loopVars, readVars, sendVars>>

get_available_stable_environments ==
    /\ pc = "fetch_stable"
    /\ \E ok \in BOOLEAN, answer \in ServerStable :
         /\ available_stable_environments' = listing(ok, answer)
         /\ listFailed' = IF ok THEN listFailed ELSE listFailed \cup {"stable"}
         /\ goto("mode", IF ok THEN {} ELSE {"Error fetching stable environments"})
    /\ UNCHANGED <<flow, hostVars, confirm, configVars, reprompts, available_services, available_branches,
                   local_services, selected_branch, environment, is_ephemeral,
                   installVars, launchVars, proc, procExitPc, loopVars, readVars, sendVars>>

(***************************************************************************)
(* run(): choosing the services and the branch or environment              *)
(***************************************************************************)
choose_multiple_from_list ==
    /\ pc = "choose_services"
    /\ IF available_services = <<>>
       THEN /\ sys_exit(1, {"No services defined."})
            /\ UNCHANGED <<local_services, reprompts>>
       ELSE \E raw \in RawLines :
              LET r == parse_selection(available_services, raw) IN
              IF r.accepted
              THEN /\ local_services' = r.selected
                   /\ reprompts' = 0
                   /\ goto(CASE flow = "create_env_v1" -> "fetch_branches"
                             [] flow = "create_env_v2" -> "choose_branch"
                             [] OTHER -> "validate", {})
              ELSE /\ ask_again
                   /\ UNCHANGED local_services
    /\ UNCHANGED <<flow, hostVars, confirm, configVars, available_services, available_branches,
                   available_stable_environments, listFailed, selected_branch,
                   environment, is_ephemeral, installVars, launchVars, proc,
                   procExitPc, loopVars, readVars, sendVars>>

choose_from_list ==
    /\ pc = "choose_branch"
    /\ IF available_branches = <<>>
       THEN /\ sys_exit(1, {"No options available."})
            /\ UNCHANGED <<selected_branch, reprompts>>
       ELSE \E answer \in {"1", "9", "main", " main", "bad"} :
              LET r == parse_choice(available_branches, answer) IN
              IF r.accepted
              THEN /\ selected_branch' = r.value
                   /\ reprompts' = 0
                   /\ goto("ngrok", {})
              ELSE /\ ask_again
                   /\ UNCHANGED selected_branch
    /\ UNCHANGED <<flow, hostVars, confirm, configVars, available_services, available_branches,
                   available_stable_environments, listFailed, local_services,
                   environment, is_ephemeral, installVars, launchVars, proc,
                   procExitPc, loopVars, readVars, sendVars>>

\* create_env.py (second version), run() step 3: --services and --branch
run_cli_args ==
    /\ pc = "args"
    /\ \E cli_services \in ServicesArgs, cli_branch \in StrArgs({"", "main", " main", "bad"}) :
         IF truthy_line(cli_services) \/ truthy_str(cli_branch)
         THEN IF ~(truthy_line(cli_services) /\ truthy_str(cli_branch))
              THEN /\ sys_exit(1, {"you must provide both"})
                   /\ UNCHANGED <<local_services, selected_branch>>
              ELSE IF strip(cli_branch.value) \notin Range(available_branches)
              THEN /\ sys_exit(1, {"Invalid branch"})
                   /\ selected_branch' = strip(cli_branch.value)
                   /\ UNCHANGED local_services
              ELSE /\ selected_branch' = strip(cli_branch.value)
                   /\ local_services' = split_parts(cli_services.value)
                   /\ IF invalid_of(local_services', available_services) # <<>>
                      THEN sys_exit(1, {"Invalid services"})
                      ELSE goto("ngrok", {})
         ELSE /\ goto("choose_services", {})
              /\ UNCHANGED <<local_services, selected_branch>>
    /\ UNCHANGED <<flow, hostVars, confirm, configVars, reprompts, available_services, available_branches,
                   available_stable_environments, listFailed, environment, is_ephemeral,
                   installVars, launchVars, proc, procExitPc, loopVars, readVars, sendVars>>

\* input(...).strip().lower() on the answers the model feeds in
lower(s) ==
    CASE s = "Y" -> "y" [] s = "N" -> "n"
      [] s = "AMD64" -> "amd64" [] s = "ARM64" -> "arm64"
      [] OTHER -> s

YesNoAnswers == {"y", "Y", "n", "x"}

\* create_backend.py, run() step 3: automatic mode, or on to the manual prompts
run_backend_mode ==
    /\ pc = "mode"
    /\ \E cli_environment \in StrArgs({"prod", " prod", "feat"}),
          cli_services \in ServicesArgs,
          cli_is_ephemeral \in BOOLEAN :
         IF cli_environment.given /\ cli_services.given
         THEN /\ environment' = cli_environment.value
              /\ is_ephemeral' = cli_is_ephemeral
              /\ local_services' = split_parts(cli_services.value)
              /\ goto("validate", {})
         ELSE /\ goto("ask_ephemeral", {})
              /\ UNCHANGED <<environment, is_ephemeral, local_services>>
    /\ UNCHANGED <<flow, hostVars, confirm, configVars, reprompts, available_services, available_branches,
                   available_stable_environments, listFailed, selected_branch,
                   installVars, launchVars, proc, procExitPc, loopVars, readVars, sendVars>>

\* create_backend.py, manual mode: "Is this environment ephemeral? (y/n)"
ask_ephemeral ==
    /\ pc = "ask_ephemeral"
    /\ \E answer \in YesNoAnswers :
         IF lower(strip(answer)) \in {"y", "n"}
         THEN /\ is_ephemeral' = (lower(strip(answer)) = "y")
              /\ reprompts' = 0
              /\ goto("ask_environment", {})
         ELSE /\ ask_again
              /\ UNCHANGED is_ephemeral
    /\ UNCHANGED <<flow, hostVars, confirm, configVars, available_services, available_branches,
                   available_stable_environments, listFailed, local_services,
                   selected_branch, environment, installVars, launchVars, proc,
                   procExitPc, loopVars, readVars, sendVars>>

\* create_backend.py, manual mode: environment = input("Environment: ").strip()
ask_environment ==
    /\ pc = "ask_environment"
    /\ \E answer \in {"prod", " prod", "feat", ""} :
         /\ environment' = strip(answer)
         /\ goto("choose_services", {})
    /\ UNCHANGED <<flow, hostVars, confirm, configVars, reprompts, available_services, available_branches,
                   available_stable_environments, listFailed, local_services,
                   selected_branch, is_ephemeral, installVars, launchVars, proc,
                   procExitPc, loopVars, readVars, sendVars>>

\* create_backend.py, run() step 4
run_backend_validate ==
    /\ pc = "validate"
    /\ IF invalid_of(local_services, available_services) # <<>>
       THEN sys_exit(1, {"Invalid services"})
       ELSE IF ~is_ephemeral /\ environment \notin Range(available_stable_environments)
       THEN sys_exit(1, {"not in this list of stable environments"})
       ELSE goto("confirm", {})
    /\ UNCHANGED <<flow, hostVars, confirm, configVars, reprompts, sessionVars, installVars, launchVars,
                   proc, procExitPc, loopVars, readVars, sendVars>>

(***************************************************************************)
(* run(): confirmation and the creation request                            *)
(***************************************************************************)
\* a prompt that takes every answer but 'n' for a yes
is_yes_unless_no(answer) == answer # "n"

\* run(): if confirm == "y": break
is_yes(answer) == answer = "y"

\* run() step 5: confirm = input("Send payload? (y/n): ").strip().lower()
run_confirm ==
    /\ pc = "confirm"
    /\ \E answer \in YesNoAnswers :
         /\ confirm' = lower(strip(answer))
         /\ IF is_yes(confirm')
            THEN /\ reprompts' = 0
                 /\ goto("send", {})
            ELSE IF confirm' = "n"
            THEN /\ sys_exit(0, {"Operation cancelled by the user."})
                 /\ UNCHANGED reprompts
            ELSE ask_again
    /\ UNCHANGED <<flow, hostVars, configVars, sessionVars, installVars, launchVars, proc, procExitPc,
                   loopVars, readVars, sendVars>>

build_payload ==
    IF flow \in EnvFlows
    THEN [local_services |-> local_services, ngrok_endpoint |-> ngrok_endpoint,
          branch |-> selected_branch]
    ELSE [environment |-> environment, services_to_deploy |-> local_services]

\* a send_payload that posts again after a failed post
post_attempts_with_retry(ok) == IF ok THEN 1 ELSE 2

\* send_payload: the requests.post calls it makes, by the outcome of the first
post_attempts(ok) == 1

\* run() step 6: build_payload, then send_payload
send_payload ==
    /\ pc = "send"
    /\ payload' = build_payload
    /\ \E ok \in BOOLEAN :
         /\ posts' = posts + post_attempts(ok)
         /\ IF ~ok
            THEN sys_exit(1, {"Error sending payload"})
            ELSE IF flow = "create_env_v2"
            THEN goto("wait", {})
            ELSE returns({})
    /\ UNCHANGED <<flow, hostVars, confirm, configVars, reprompts, sessionVars, installVars, launchVars, proc,
                   procExitPc, loopVars, readVars>>

(***************************************************************************)
(* ngrok_util.py                                                           *)
(***************************************************************************)
\* what is_ngrok_running() may return: the status API answers only while some
\* tunnel instance runs, and even then a request may fail
is_ngrok_running == IF stale = "running" \/ proc = "running" THEN BOOLEAN ELSE {FALSE}

\* get_ngrok_endpoint, up to the call of start_ngrok
get_ngrok_endpoint ==
    /\ pc = "ngrok"
    /\ \E up \in is_ngrok_running :
         IF up
         THEN goto("read_status", {})
         ELSE goto("resolve", {})
    /\ UNCHANGED <<flow, hostVars, confirm, configVars, reprompts, sessionVars, installVars, launchVars,
                   proc, procExitPc, loopVars, readVars, sendVars>>

\* hosts the tool may run on: platform.system() and platform.machine()
Systems == {"Windows", "Darwin", "Linux", "FreeBSD"}
Machines == {"AMD64", "amd64", "x86_64", "ARM64", "arm64", "aarch64",
             "x86", "i386", "i686", "armv7l"}

\* the host of this session: the one fixed in the state, or any where it is left open
Hosts == IF system = "any" THEN Systems \X Machines ELSE {<<system, machine>>}

\* a download URL, by its two parts that vary: the platform and the extension
Url(slug, extension) == [ok |-> TRUE, url |-> <<slug, extension>>, os |-> "", arch |-> ""]

\* raise Exception(f"Unsupported {os} architecture: {arch}") and
\* raise Exception(f"Unsupported operating system: {system} ({arch})")
Unsupported(os, arch) == [ok |-> FALSE, url |-> <<>>, os |-> os, arch |-> arch]

get_download_url(sys, mach) ==
    LET arch == lower(mach) IN
    IF sys = "Windows" THEN
        IF arch \in {"amd64", "x86_64"} THEN Url("windows-amd64", "zip")
        ELSE IF arch \in {"arm64", "aarch64"} THEN Url("windows-arm64", "zip")
        ELSE IF arch \in {"x86", "i386", "i686"} THEN Url("windows-386", "zip")
        ELSE Unsupported("Windows", arch)
    ELSE IF sys = "Darwin" THEN
        IF arch = "arm64" THEN Url("darwin-arm64", "zip")
        ELSE IF arch \in {"x86_64", "amd64"} THEN Url("darwin-amd64", "zip")
        ELSE Unsupported("macOS", arch)
    ELSE IF sys = "Linux" THEN
        IF arch \in {"amd64", "x86_64"} THEN Url("linux-amd64", "tgz")
        ELSE IF arch \in {"x86", "i386", "i686"} THEN Url("linux-386", "tgz")
        ELSE IF arch = "aarch64" THEN Url("linux-arm64", "zip")
        ELSE Unsupported("Linux", arch)
    ELSE Unsupported(sys, arch)

\* download_ngrok: where it may stop.
\*   "unsupported"      get_download_url raised
\*   "retrieve_failed"  urlretrieve raised before it wrote ngrok.zip
\*   "retrieve_cut"     urlretrieve raised with ngrok.zip partly written
\*   "bad_archive"      zipfile.ZipFile raised: ngrok.zip is not a zip file
\*   "extract_cut"      extractall raised with the binary partly written
\*   "ok"               it returned the path of the binary
DownloadOutcomes ==
    {"ok", "unsupported", "retrieve_failed", "retrieve_cut", "bad_archive", "extract_cut"}

\* the outcomes on one host: no URL, no download; a .tgz is never a zip file
download_outcomes(sys, mach) ==
    LET r == get_download_url(sys, mach) IN
    IF ~r.ok THEN {"unsupported"}
    ELSE IF r.url[2] = "zip" THEN DownloadOutcomes \ {"unsupported"}
    ELSE {"retrieve_failed", "retrieve_cut", "bad_archive"}

\* a download_ngrok without its os.remove(zip_path)
download_ngrok_keeps_archive(outcome) ==
    /\ downloads' = downloads + 1
    /\ installLog' = Append(installLog, outcome)
    /\ localCopy' = (localCopy \/ outcome \in {"ok", "extract_cut"})
    /\ executable' = CASE outcome = "ok" -> TRUE
                       [] outcome = "extract_cut" -> FALSE
                       [] OTHER -> executable
    /\ archive' = (archive \/ outcome \in {"ok", "retrieve_cut", "bad_archive", "extract_cut"})

\* download_ngrok: what it leaves in NGROK_BIN_DIR, by how far it got. urlretrieve
\* and extractall overwrite what is there; the extracted file is executable once
\* os.chmod has run (on Windows it needs no mode bit)
download_ngrok(outcome) ==
    /\ downloads' = downloads + 1
    /\ installLog' = Append(installLog, outcome)
    /\ localCopy' = (localCopy \/ outcome \in {"ok", "extract_cut"})
    /\ executable' = CASE outcome = "ok" -> TRUE
                       [] outcome = "extract_cut" -> FALSE
                       [] OTHER -> executable
    /\ archive' = CASE outcome = "ok" -> FALSE
                    [] outcome \in {"retrieve_cut", "bad_archive", "extract_cut"} -> TRUE
                    [] OTHER -> archive

\* the chain without its second link: a local copy is ignored
resolve_choice_skips_local(sys, local) ==
    IF sys = "ok" THEN "system" ELSE "download"

\* resolve_ngrok_exec: the fallback chain, first success wins
resolve_choice(sys, local) ==
    IF sys = "ok" THEN "system"
    ELSE IF local THEN "local"
    ELSE "download"

\* resolve_ngrok_exec, as the first statement of start_ngrok
resolve_ngrok_exec ==
    /\ pc = "resolve"
    /\ probed' = IF sysBin = "absent" THEN probed ELSE probed \cup {"system"}
    /\ LET choice == resolve_choice(sysBin, localCopy)
           warn == IF sysBin = "broken"
                   THEN {"Global ngrok is present but not responding correctly."} ELSE {}
       IN
       IF choice = "system"
       THEN /\ ngrok_exec' = "system"
            /\ goto("kill", {})
            /\ UNCHANGED <<localCopy, executable, archive, downloads, installLog>>
       ELSE IF choice = "local"
       THEN /\ ngrok_exec' = "local"
            /\ goto("kill", warn)
            /\ UNCHANGED <<localCopy, executable, archive, downloads, installLog>>
       ELSE \E host \in Hosts : \E outcome \in download_outcomes(host[1], host[2]) :
              /\ download_ngrok(outcome)
              /\ IF outcome = "ok"
                 THEN /\ ngrok_exec' = "local"
                      /\ goto("kill", warn)
                 ELSE /\ ngrok_exec' = ngrok_exec
                      /\ raise_in_run(DownloadError(outcome), warn)
    /\ UNCHANGED <<flow, hostVars, confirm, configVars, reprompts, sessionVars, sysBin, launchVars,
                   proc, procExitPc, loopVars, readVars, sendVars>>

\* a kill block that does not wait after the kill
slept_after_kill_never(raised) == FALSE

\* start_ngrok: time.sleep(2) is the last statement of the try block of the kill
slept_after_kill(raised) == ~raised

\* start_ngrok: "Kill any existing ngrok processes". The command may fail to run
\* (raised), and when it runs it may leave an instance alive (check=False)
kill_existing ==
    /\ pc = "kill"
    /\ \E raised \in BOOLEAN, effective \in BOOLEAN :
         /\ settled' = slept_after_kill(raised)
         /\ IF raised
            THEN /\ killState' = "raised"
                 /\ goto("authtoken", {"Warning while trying to terminate existing ngrok processes"})
                 /\ UNCHANGED stale
            ELSE /\ killState' = "ran"
                 /\ stale' = IF stale = "running" /\ effective THEN "killed" ELSE stale
                 /\ goto("authtoken", {})
    /\ UNCHANGED <<flow, hostVars, confirm, configVars, reprompts, sessionVars, installVars, authtoken, authState,
                   proc, procExitPc, loopVars, readVars, sendVars>>

\* a start_ngrok that gives up when the authtoken command fails
after_authtoken_fatal(ok) == IF ok THEN "spawn" ELSE "done"

\* start_ngrok: where it goes on after the authtoken command; the except clause
\* only prints
after_authtoken(ok) == "spawn"

\* start_ngrok: "Apply authtoken if available"
apply_authtoken ==
    /\ pc = "authtoken"
    /\ IF authtoken = "set"
       THEN \E ok \in BOOLEAN :
              /\ authState' = IF ok THEN "ok" ELSE "failed"
              /\ goto(after_authtoken(ok),
                      IF ok THEN {} ELSE {"Error applying authtoken", "Continuing without authtoken..."})
       ELSE /\ goto("spawn", {})
            /\ UNCHANGED authState
    /\ UNCHANGED <<flow, hostVars, confirm, configVars, reprompts, sessionVars, installVars, stale, killState, settled,
                   authtoken, proc, procExitPc, loopVars, readVars, sendVars>>

\* start_ngrok: process = subprocess.Popen([ngrok_exec, "http", str(port)], ...)
Popen ==
    /\ pc = "spawn"
    /\ proc' = "running"
    /\ i' = 0
    /\ goto("loop_api", {})
    /\ UNCHANGED <<flow, hostVars, confirm, configVars, reprompts, sessionVars, installVars, launchVars,
                   procExitPc, polls, ready, readVars, sendVars>>

\* start_ngrok, the loop: if is_ngrok_running(): return process
loop_is_ngrok_running ==
    /\ pc = "loop_api"
    /\ \E up \in is_ngrok_running :
         IF up
         THEN \* return process: the frame of start_ngrok, i with it, is gone
              /\ ready' = TRUE
              /\ i' = 0
              /\ polls' = 0
              /\ goto("read_status", {})
         ELSE /\ ready' = ready
              /\ i' = i
              /\ polls' = polls + 1
              /\ goto("loop_poll", {})
    /\ UNCHANGED <<flow, hostVars, confirm, configVars, reprompts, sessionVars, installVars, launchVars,
                   proc, procExitPc, readVars, sendVars>>

\* start_ngrok, the loop: if process.poll() is not None: ... raise
loop_poll ==
    /\ pc = "loop_poll"
    /\ IF proc # "running"
       THEN raise_in_run(CrashError, {"Ngrok exited prematurely with code", "STDOUT", "STDERR"})
       ELSE goto("loop_sleep", {})
    /\ UNCHANGED <<flow, hostVars, confirm, configVars, reprompts, sessionVars, installVars, launchVars,
                   proc, procExitPc, loopVars, readVars, sendVars>>

\* start_ngrok, the loop: time.sleep(1), the print, and the next i of range(timeout)
loop_sleep ==
    /\ pc = "loop_sleep"
    /\ i' = i + 1
    /\ goto(IF i + 1 < timeout THEN "loop_api" ELSE "after_loop", {})
    /\ UNCHANGED <<flow, hostVars, confirm, configVars, reprompts, sessionVars, installVars, launchVars,
                   proc, procExitPc, polls, ready, readVars, sendVars>>

\* process.terminate(): a signal to a process that still runs, nothing otherwise
terminate(p) == IF p = "running" THEN "terminated" ELSE p

\* start_ngrok after the loop: communicate(timeout=1), the prints, terminate(), raise.
\* communicate(timeout=1) returns only if the process has exited by then
after_loop ==
    /\ pc = "after_loop"
    /\ IF proc = "running"
       THEN /\ raise_in_run(TimeoutExpired, {})
            /\ proc' = proc
       ELSE /\ proc' = terminate(proc)
            /\ raise_in_run(LaunchTimeoutError, {"STDOUT", "STDERR"})
    /\ UNCHANGED <<flow, hostVars, confirm, configVars, reprompts, sessionVars, installVars, launchVars,
                   procExitPc, loopVars, readVars, sendVars>>

\* what the status read of get_ngrok_endpoint may get
StatusResponses ==
    IF stale = "running" \/ proc = "running"
    THEN {[ok |-> FALSE, tunnels |-> <<>>]} \cup { [ok |-> TRUE, tunnels |-> t] : t \in TunnelLists }
    ELSE {[ok |-> FALSE, tunnels |-> <<>>]}

\* get_ngrok_endpoint, after start_ngrok and time.sleep(5): the try block
read_endpoint ==
    /\ pc = "read_status"
    /\ \E res \in StatusResponses :
         IF ~res.ok
         THEN /\ statusResp' = "unreachable"
              /\ raise_in_run(EndpointError(ConnectionError), {})
              /\ UNCHANGED <<public_url, ngrok_endpoint>>
         ELSE IF res.tunnels = <<>>
         THEN /\ statusResp' = "no_tunnels"
              /\ raise_in_run(EndpointError(NoTunnelsError), {"No active tunnels found."})
              /\ UNCHANGED <<public_url, ngrok_endpoint>>
         ELSE /\ statusResp' = "ok"
              /\ public_url' = res.tunnels[1]
              /\ ngrok_endpoint' = strip_protocol(res.tunnels[1])
              /\ goto("confirm", {})
    /\ UNCHANGED <<flow, hostVars, confirm, configVars, reprompts, sessionVars, installVars, launchVars,
                   proc, procExitPc, loopVars, sendVars>>

(***************************************************************************)
(* The environment                                                         *)
(***************************************************************************)
\* the launched process exits on its own
ProcExit ==
    /\ proc = "running"
    /\ proc' = "exited"
    /\ procExitPc' = pc
    /\ UNCHANGED <<flow, hostVars, confirm, configVars, pc, exitCode, exitKind, exc, printed, reprompts, sessionVars,
                   installVars, launchVars, loopVars, readVars, sendVars>>

\* Ctrl+C while the session waits for the user. create_env.py (second version) catches it in its final wait loop;
\* anywhere else KeyboardInterrupt is no Exception and ends the session.
\* The terminal may deliver the signal to the launched process as well.
WaitsForUser == {"choose_services", "choose_branch", "ask_ephemeral", "ask_environment",
                 "confirm", "wait"}

Interrupt ==
    /\ pc \in WaitsForUser
    /\ IF pc = "wait"
       THEN returns({})
       ELSE /\ pc' = "done"
            /\ exitCode' = 1
            /\ exitKind' = "traceback"
            /\ exc' = KeyboardInterrupt
            /\ printed' = printed
    /\ \E signalled \in BOOLEAN :
         IF signalled /\ proc = "running"
         THEN proc' = "exited" /\ procExitPc' = pc
         ELSE UNCHANGED <<proc, procExitPc>>
    /\ UNCHANGED <<flow, hostVars, confirm, configVars, reprompts, sessionVars, installVars, launchVars,
                   loopVars, readVars, sendVars>>

(***************************************************************************)
(* Specification                                                           *)
(***************************************************************************)
SessionNext ==
    \/ run_load_env
    \/ get_available_services
    \/ get_repo_branches
    \/ get_available_stable_environments
    \/ choose_multiple_from_list
    \/ choose_from_list
    \/ run_cli_args
    \/ run_backend_mode
    \/ ask_ephemeral
    \/ ask_environment
    \/ run_backend_validate
    \/ get_ngrok_endpoint
    \/ resolve_ngrok_exec
    \/ kill_existing
    \/ apply_authtoken
    \/ Popen
    \/ loop_is_ngrok_running
    \/ loop_poll
    \/ loop_sleep
    \/ after_loop
    \/ read_endpoint
    \/ run_confirm
    \/ send_payload

Next == SessionNext \/ ProcExit \/ Interrupt

Spec == Init /\ [][Next]_vars

\* the interpreter runs the session's next statement whenever there is one
FairSpec == Spec /\ WF_vars(SessionNext)

(***************************************************************************)
(* The installer on its own: download_ngrok called again and again on one  *)
(* host, whatever the earlier calls left in NGROK_BIN_DIR                  *)
(***************************************************************************)
InstallInit ==
    /\ flow \in EnvFlows
    /\ pc = "start"
    /\ exitCode = -1
    /\ exitKind = "none"
    /\ exc = NoExc
    /\ printed = {}
    /\ reprompts = 0
    /\ developer = "unread"
    /\ terraform_endpoint = "unread"
    /\ available_services = <<>>
    /\ available_branches = <<>>
    /\ available_stable_environments = <<>>
    /\ listFailed = {}
    /\ local_services = <<>>
    /\ selected_branch = ""
    /\ environment = ""
    /\ is_ephemeral = FALSE
    /\ system \in Systems
    /\ machine \in Machines
    /\ sysBin = "absent"
    /\ localCopy = FALSE
    /\ executable = FALSE
    /\ archive = FALSE
    /\ downloads = 0
    /\ installLog = <<>>
    /\ probed = {}
    /\ ngrok_exec = "none"
    /\ stale = "none"
    /\ killState = "not_tried"
    /\ settled = FALSE
    /\ authtoken = "unset"
    /\ authState = "not_run"
    /\ proc = "none"
    /\ procExitPc = "none"
    /\ i = 0
    /\ polls = 0
    /\ ready = FALSE
    /\ statusResp = "none"
    /\ public_url = <<>>
    /\ ngrok_endpoint = <<>>
    /\ confirm = ""
    /\ payload = <<>>
    /\ posts = 0

\* one call of download_ngrok(); ngrok_exec is what the call returned
call_download_ngrok ==
    /\ downloads < MaxRuns
    /\ \E outcome \in download_outcomes(system, machine) :
         /\ download_ngrok(outcome)
         /\ ngrok_exec' = IF outcome = "ok" THEN "local" ELSE "none"
    /\ UNCHANGED <<flow, hostVars, confirm, configVars, pc, exitCode, exitKind, exc, printed,
                   reprompts, sessionVars, sysBin, probed, launchVars, proc, procExitPc,
                   loopVars, readVars, sendVars>>

InstallNext == call_download_ngrok

InstallSpec == InstallInit /\ [][InstallNext]_vars

(***************************************************************************)
(* Properties                                                              *)
(***************************************************************************)
\* start_ngrok ran its loop to the ceiling without a successful status response
CeilingElapsed == pc = "done" /\ i = timeout

\* C1: when the readiness ceiling elapses with no successful status response and
\* the launched process has not exited on its own, the supervisor has terminated
\* the process by the time the failure is reported, and the failure reported is
\* the launch-timeout error.
C1_TimeoutTerminatesProcess ==
    (CeilingElapsed /\ proc # "exited")
        => (proc = "terminated" /\ exc = LaunchTimeoutError)

\* the launched process exited on its own inside the polling loop of start_ngrok
\* and no status poll ever succeeded
ExitedWhilePolling ==
    /\ procExitPc \in {"loop_api", "loop_poll", "loop_sleep"}
    /\ ~ready

\* C2: if the launched process exits on its own at any moment of the polling
\* window before the status API became reachable, start_ngrok fails with the
\* crash error, its captured output printed, and never with the timeout error.
C2_CrashNotTimeout ==
    (pc = "done" /\ ExitedWhilePolling)
        => (exc = CrashError /\ {"STDOUT", "STDERR"} \subseteq printed)

\* C3: with a status API that never becomes reachable and a launched process
\* that never exits, start_ngrok makes exactly 30 status polls and then fails
\* with the timeout error; it returns at the first poll that succeeds, without
\* polling again.
C3_ThirtyPollsThenTimeout ==
    [][ /\ (CeilingElapsed' /\ proc' = "running")
            => (polls' = 30 /\ exc' = LaunchTimeoutError)
        /\ (ready' /\ ~ready) => (pc = "loop_api" /\ polls = i)
        /\ ready => polls' = polls ]_vars

\* C4 as claimed: whenever the new process has been spawned, the system-wide
\* kill and the settle delay came first and no earlier tunnel instance is
\* still running.
C4_NoEarlierInstanceAtSpawn ==
    proc # "none" => (killState = "ran" /\ settled /\ stale # "running")

\* C4 as amended: whenever the new process has been spawned, the kill attempt
\* came first, and so did the settle delay if the kill command could be run;
\* no launched process exists before the spawn step.
C4_KillAttemptBeforeSpawn ==
    /\ proc # "none" => (killState # "not_tried" /\ (killState = "ran" => settled))
    /\ pc \in {"start", "fetch_services", "fetch_branches", "choose_services",
               "choose_branch", "args", "ngrok", "resolve", "kill", "authtoken", "spawn"}
           => proc = "none"

\* a process spawned after the kill ran and settled, with an earlier instance
\* that survived the kill
C4_SpawnedBesideSurvivor ==
    proc = "running" /\ killState = "ran" /\ settled /\ stale = "running"

\* C5: once a session that launched a tunnel process has ended, the launched
\* process is eventually no longer running.
C5_TunnelEndsWithSession ==
    [](pc = "done" /\ proc = "running" => <>(proc # "running"))

\* C6: when the status API answers with zero mappings, get_ngrok_endpoint fails
\* with the no-active-tunnel error, of another kind than the error it raises
\* when the status API is unreachable.
C6_NoTunnelErrorIsDistinct ==
    statusResp = "no_tunnels"
        => (exc.msg = NoTunnelsError.msg /\ exc.type # EndpointError(ConnectionError).type)

\* the url with only a leading "https://" or "http://" removed
strip_leading_scheme(url) ==
    IF StartsWith(url, HTTPS) THEN Drop(url, Len(HTTPS))
    ELSE IF StartsWith(url, HTTP) THEN Drop(url, Len(HTTP))
    ELSE url

\* C7: the endpoint returned is the public URL of the first mapping with only
\* its leading scheme prefix removed and the rest unchanged.
C7_OnlyLeadingSchemeRemoved ==
    statusResp = "ok" => ngrok_endpoint = strip_leading_scheme(public_url)

\* C8: in the step that runs resolve_ngrok_exec, a system binary whose probe
\* succeeds is used without a download; otherwise an existing local copy is
\* used without a download and without a version probe of it; otherwise the
\* Downloader is called exactly once.
C8_FallbackChain ==
    [][ (pc = "resolve" /\ pc' # "resolve") =>
          /\ sysBin = "ok" => (ngrok_exec' = "system" /\ downloads' = 0)
          /\ (sysBin # "ok" /\ localCopy)
                => (ngrok_exec' = "local" /\ downloads' = 0 /\ "local" \notin probed')
          /\ (sysBin # "ok" /\ ~localCopy) => downloads' = 1 ]_vars

\* the local copy used, after the probe of the system binary failed
C8_LocalCopyAfterBrokenSystem ==
    ngrok_exec = "local" /\ sysBin = "broken" /\ downloads = 0 /\ proc = "running"

\* C9: no session issues the creation POST more than once, and a session that
\* completed successfully issued it exactly once.
C9_PostExactlyOnce ==
    /\ posts <= 1
    /\ payload = <<>> <=> posts = 0
    /\ (pc = "wait" \/ (pc = "done" /\ exitKind = "return")) => posts = 1

\* a session that ended with a failed send
C9_FailedSendNotRetried ==
    pc = "done" /\ "Error sending payload" \in printed /\ posts = 1

\* C10: a failed listing call or a failed creation call is fatal: no creation
\* request follows a failed listing call, and unless the user cancelled at the
\* prompt the session ends with a non-zero exit, its diagnostic printed.
C10_BackendFailureIsFatal ==
    /\ listFailed # {} => posts = 0
    /\ (/\ pc = "done"
        /\ listFailed # {} \/ "Error sending payload" \in printed
        /\ "Operation cancelled by the user." \notin printed)
           => (exitCode # 0 /\ printed # {})

\* diagnostics of the validation failures: invalid service, branch or stable
\* environment, empty option list
ValidationDiagnostics ==
    {"Invalid services", "Invalid branch", "not in this list of stable environments",
     "No services defined.", "No options available.", "you must provide both"}

\* the tool's own diagnostic for the configuration variable that is missing
ConfigDiagnostic ==
    IF flow \in EnvFlows
    THEN IF terraform_endpoint # "set" THEN "TERRAFORM_ENDPOINT is not defined"
         ELSE "DEVELOPER is not defined"
    ELSE "Missing required environment variables"

\* required configuration read by run() and found missing
MissingConfig ==
    \/ terraform_endpoint \in {"unset", "empty"}
    \/ flow \in EnvFlows /\ developer = "unset"

\* C11: a session ends with exit code zero exactly when it completed
\* successfully or the user answered 'n' at the confirmation prompt; the exit
\* code is non-zero after every validation failure, after missing required
\* configuration, which the tool's own diagnostic check reports, and after every
\* unrecoverable tunnel or backend error.
C11_ExitCodes ==
    pc = "done" =>
        /\ exitCode = 0 <=> (exitKind = "return"
                             \/ "Operation cancelled by the user." \in printed)
        /\ printed \cap ValidationDiagnostics # {} => exitCode # 0
        /\ MissingConfig => (/\ exitCode # 0
                             /\ exitKind = "sysexit"
                             /\ ConfigDiagnostic \in printed)
        /\ (exc.type = "RuntimeError" \/ "Error sending payload" \in printed)
               => exitCode # 0

\* C12: download_ngrok is idempotent: whatever earlier calls left behind (a call
\* that failed during retrieval or extraction, or one that succeeded), a call
\* that succeeds leaves the install directory with the one executable binary
\* and no archive file, and returns the path of that binary.
C12_DownloadIdempotent ==
    (installLog # <<>> /\ installLog[Len(installLog)] = "ok")
        => (localCopy /\ executable /\ ~archive /\ ngrok_exec = "local")

\* two successful calls after a call cut during retrieval and one that met a
\* bad archive, nothing cleaned up in between
C12_SucceedsAfterEveryKindOfRun ==
    /\ installLog = <<"retrieve_cut", "bad_archive", "ok", "ok">>
    /\ localCopy /\ executable /\ ~archive

\* the architecture that a machine string names
arch_of(mach) ==
    LET arch == lower(mach) IN
    CASE arch \in {"amd64", "x86_64"} -> "amd64"
      [] arch \in {"arm64", "aarch64"} -> "arm64"
      [] arch \in {"x86", "i386", "i686"} -> "x86"
      [] OTHER -> arch

\* the operating system that platform.system() names
os_of(sys) == IF sys = "Darwin" THEN "macOS" ELSE sys

\* the eight (os, arch) pairs that are to have a download URL
SupportedPlatforms ==
    {<<"Windows", "amd64">>, <<"Windows", "arm64">>, <<"Windows", "x86">>,
     <<"macOS", "arm64">>, <<"macOS", "amd64">>,
     <<"Linux", "amd64">>, <<"Linux", "x86">>, <<"Linux", "arm64">>}

\* C13: once download_ngrok has been called, so that get_download_url has run:
\* on a host of one of the eight supported (os, arch) pairs it returned a
\* non-empty URL, and no call ended for want of one; on every other host it
\* failed with the unsupported-platform error, whose message names the
\* operating system and the architecture.
C13_DownloadUrlTable ==
    installLog # <<>> =>
        LET r == get_download_url(system, machine) IN
        IF <<os_of(system), arch_of(machine)>> \in SupportedPlatforms
        THEN /\ r.ok /\ r.url # <<>>
             /\ \A k \in 1..Len(installLog) : installLog[k] # "unsupported"
        ELSE /\ ~r.ok /\ r.os = os_of(system) /\ r.arch = lower(machine)
             /\ \A k \in 1..Len(installLog) : installLog[k] = "unsupported"

\* C14: the authtoken command is run exactly when a token is supplied, and
\* before the tunnel process is launched; whatever its outcome, start_ngrok
\* goes on to launch the process, and from the launch on to poll it, as it does
\* when no token is supplied.
C14_AuthtokenFailureNotFatal ==
    [][ /\ (proc' # "none" /\ authtoken' = "set") => authState' # "not_run"
        /\ authtoken' = "unset" => authState' = "not_run"
        /\ authState' # authState => (pc = "authtoken" /\ proc = "none")
        /\ pc = "authtoken" => (pc' = "spawn" /\ exitCode' = -1 /\ exc' = NoExc)
        /\ pc = "spawn" => (proc' = "running" /\ pc' = "loop_api" /\ i' = 0 /\ polls' = polls)
      ]_vars

\* the launched process being polled after the authtoken command failed
C14_PolledAfterFailedAuthtoken ==
    /\ authState = "failed"
    /\ "Continuing without authtoken..." \in printed
    /\ proc = "running" /\ pc = "loop_poll" /\ polls = 2

\* C15: at the step where start_ngrok returns the process handle, the process
\* it launched is running.
C15_ReadyOnlyWhileRunning ==
    [][ (~ready /\ ready') => proc' = "running" ]_vars

\* C16: a creation request has been sent only if the user answered 'y' at the
\* confirmation prompt; in the create-env flows only with the public tunnel
\* address obtained and carried by the request; and after an answer of 'n' the
\* session has ended with no request sent.
C16_NoRequestWithoutYes ==
    /\ posts > 0 => confirm = "y"
    /\ (posts > 0 /\ flow \in EnvFlows)
           => (statusResp = "ok" /\ payload.ngrok_endpoint = strip_protocol(public_url))
    /\ pc \in {"send", "wait"} => confirm = "y"
    /\ confirm = "n" => (posts = 0 /\ pc = "done" /\ exitCode = 0)

\* a create-env request sent after a rejected answer and then a 'y'
C16_SentAfterYes ==
    /\ flow \in EnvFlows /\ posts = 1 /\ confirm = "y"
    /\ statusResp = "ok" /\ payload.ngrok_endpoint = strip_protocol(public_url)

\* the service list of the creation request
services_of(request) ==
    IF flow \in EnvFlows THEN request.local_services ELSE request.services_to_deploy

\* C17: in a session whose listing calls were answered, the service list of
\* every creation request sent is non-empty, has no duplicates and holds only
\* names of the list of available services that the server gave.
C17_ServiceListWellFormed ==
    (posts > 0 /\ listFailed = {}) =>
        LET services == services_of(payload) IN
        /\ services # <<>>
        /\ \A j, k \in 1..Len(services) : services[j] = services[k] => j = k
        /\ Range(services) \subseteq Range(available_services)

====
